---- MODULE Spec2Model ----
(***************************************************************************)
(* A model of mtdata's command line front end (src/mtdata/main.py):        *)
(* the lang_pair and dataset_id argument parsers, the main dispatcher with *)
(* its index invalidation, and the list / get / report workflows with the  *)
(* reproducibility signature file.                                         *)
(*                                                                         *)
(* Strings are sequences of symbols.  A symbol stands for one or more      *)
(* characters that the code never looks inside: "-" is the hyphen the      *)
(* parsers split on, " " is a whitespace character, the others are runs    *)
(* of letters or digits, or a literal of a format string.                  *)
(***************************************************************************)
EXTENDS Integers, Sequences, FiniteSets, TLC

VARIABLES
    pc,         \* per process: position in main / get_data
    args,       \* per process: the argparse namespace of the invocation
    err,        \* per process: the exception that left main ("none")
    sig,        \* per process: get_data's local sig
    wpos,       \* per process: offset of the open signature writer
    log,        \* per process: log.info lines of the invocation
    queries,    \* per process: catalog queries made by the invocation
    snap,       \* per process: the filesystem when the invocation started
    cacheIndex, \* cached_index_file: 0 absent, else the build that wrote it
    bakFile,    \* its .bak sibling, same encoding
    outDir,     \* per directory: the dataset files prepared in it
    sigFile,    \* per directory: mtdata.signature.txt
    hist,       \* per directory: records of the completed get invocations
    runs,       \* invocations started so far
    pin,        \* parser harness: the argument string
    pfun,       \* parser harness: which argparse type function
    pres,       \* parser harness: its outcome
    entries,    \* report harness: what the catalog returns
    tables,     \* report harness: the tables of the last run
    prevTables, \* report harness: the tables of the run before
    rruns       \* report harness: runs made

vars == <<pc, args, err, sig, wpos, log, queries, snap, cacheIndex, bakFile,
          outDir, sigFile, hist, runs, pin, pfun, pres, entries, tables,
          prevTables, rruns>>

mainVars == <<pc, args, err, sig, wpos, log, queries, snap, cacheIndex,
              bakFile, outDir, sigFile, hist, runs>>
parseVars == <<pin, pfun, pres>>
reportVars == <<entries, tables, prevTables, rruns>>

(***************************************************************************)
(* Bounds.                                                                 *)
(***************************************************************************)
MaxFields == 6     \* hyphen separated fields of a parser input
MaxRuns == 2       \* invocations of main in one behaviour
MaxEntries == 4    \* entries the catalog returns to report

(***************************************************************************)
(* str.strip, str.split and str.join.                                      *)
(***************************************************************************)
Hyphen == "-"
Space == " "

RECURSIVE LStrip(_)
LStrip(s) ==
    IF s # <<>> /\ Head(s) = Space THEN LStrip(Tail(s)) ELSE s

RECURSIVE RStrip(_)
RStrip(s) ==
    IF s # <<>> /\ s[Len(s)] = Space THEN RStrip(SubSeq(s, 1, Len(s) - 1)) ELSE s

Strip(s) == RStrip(LStrip(s))

RECURSIVE Split(_)
Split(s) ==
    IF \E i \in 1..Len(s) : s[i] = Hyphen
    THEN LET i == CHOOSE k \in 1..Len(s) :
                      s[k] = Hyphen /\ \A j \in 1..(k - 1) : s[j] # Hyphen
         IN <<SubSeq(s, 1, i - 1)>> \o Split(SubSeq(s, i + 1, Len(s)))
    ELSE <<s>>

RECURSIVE Join(_, _)
Join(parts, sep) ==
    IF parts = <<>> THEN <<>>
    ELSE IF Len(parts) = 1 THEN parts[1]
    ELSE parts[1] \o <<sep>> \o Join(Tail(parts), sep)

(***************************************************************************)
(* mtdata.iso.bcp47.bcp47 and str(BCP47Tag): the language tag resolver.    *)
(***************************************************************************)
bcp47(part) ==
    IF part \in {<<"de">>, <<"deu">>} THEN [ok |-> TRUE, tag |-> "deu"]
    ELSE IF part \in {<<"en">>, <<"eng">>} THEN [ok |-> TRUE, tag |-> "eng"]
    ELSE [ok |-> FALSE, tag |-> "?"]

TagStr(tag) == <<tag>>

(***************************************************************************)
(* Outcome of a parser call: what it returned or raised, and the calls it  *)
(* made on the way (resolver, constructor, log.info), in order.            *)
(***************************************************************************)
NoLangs == <<"?", "?">>
NoDid == [group |-> <<>>, name |-> <<>>, version |-> <<>>, langs |-> NoLangs]

Ev(kind, arg) == [ev |-> kind, arg |-> arg]

Outcome(status, kind, cause, langs, did, trace) ==
    [status |-> status, kind |-> kind, cause |-> cause,
     langs |-> langs, did |-> did, trace |-> trace]

FormatError == "ArgumentTypeError"

LangPairRaiseFormat(string) ==
    Outcome("raise", FormatError, "none", NoLangs, NoDid, <<>>)

\* faulty variant: the comparison inverted
LangPairSuggestMut(std_form, string) ==
    IF std_form # string THEN <<>> ELSE <<Ev("log.suggestion", std_form)>>

LangPairSuggest(std_form, string) ==
    IF std_form # string THEN <<Ev("log.suggestion", std_form)>> ELSE <<>>

lang_pair(string) ==
    LET parts == Split(string) IN
    IF Len(parts) # 2 THEN LangPairRaiseFormat(string)
    ELSE
      LET r1 == bcp47(parts[1])
          r2 == bcp47(parts[2])
          c1 == <<Ev("bcp47", parts[1])>>
          c2 == <<Ev("bcp47", parts[2])>>
      IN IF ~r1.ok
         THEN Outcome("raise", "ResolutionError", "none", NoLangs, NoDid, c1)
         ELSE IF ~r2.ok
         THEN Outcome("raise", "ResolutionError", "none", NoLangs, NoDid, c1 \o c2)
         ELSE
           LET std_codes == <<r1.tag, r2.tag>>
               std_form == Join(<<TagStr(r1.tag), TagStr(r2.tag)>>, Hyphen)
           IN Outcome("return", "none", "none", std_codes, NoDid,
                      c1 \o c2 \o LangPairSuggest(std_form, string))

(***************************************************************************)
(* mtdata.entry.DatasetId: the constructor validates the fields, and       *)
(* str() joins them with the canonical language tags.                      *)
(***************************************************************************)
DatasetIdValid(group, name, version) ==
    group # <<>> /\ name # <<>> /\ version # <<>>

DatasetIdStr(did) ==
    Join(<<did.group, did.name, did.version,
           TagStr(did.langs[1]), TagStr(did.langs[2])>>, Hyphen)

\* faulty variant: only too few fields are rejected
DatasetIdFieldCheckMut(parts) == Len(parts) < 5

DatasetIdFieldCheck(parts) == Len(parts) # 5

DatasetIdWrap(e) ==
    Outcome("raise", FormatError, e, NoLangs, NoDid, <<>>)

dataset_id(string) ==
    LET parts == Split(Strip(string)) IN
    IF DatasetIdFieldCheck(parts)
    THEN Outcome("raise", FormatError, "none", NoLangs, NoDid, <<>>)
    ELSE
      LET lp == lang_pair(Join(<<parts[4], parts[5]>>, Hyphen))
          ctor == <<Ev("DatasetId", Join(SubSeq(parts, 1, 3), Hyphen))>>
      IN IF lp.status = "raise" THEN lp
         ELSE IF ~DatasetIdValid(parts[1], parts[2], parts[3])
         THEN [DatasetIdWrap("AssertionError") EXCEPT !.trace = lp.trace \o ctor]
         ELSE Outcome("return", "none", "none", lp.langs,
                      [group |-> parts[1], name |-> parts[2],
                       version |-> parts[3], langs |-> lp.langs],
                      lp.trace \o ctor)

(***************************************************************************)
(* The catalog (mtdata.data.get_entries, Dataset.prepare) and the files.   *)
(***************************************************************************)
Procs == {1, 2}
Dirs == {"d1", "d2"}

Range(f) == {f[i] : i \in DOMAIN f}

SeqsUpTo(S, n) == UNION {[1..k -> S] : k \in 0..n}

IdA == <<"g", "-", "n", "-", "1", "-", "deu", "-", "eng">>
IdB == <<"g", "-", "m", "-", "1", "-", "deu", "-", "eng">>
RawA == IdA
RawB == <<"g", "-", "m", "-", "1", "-", "de", "-", "en">>
RawMissing == <<"g", "-", "x", "-", "1", "-", "deu", "-", "eng">>
RawMalformed == <<"g", "-", "n", "-", "1", "-", "deu">>
RawLangs == {<<"deu", "-", "eng">>, <<"de", "-", "en">>}

CatalogIds == {IdA, IdB}

Entry(l1, l2, name, cite) == [langs |-> <<l1, l2>>, name |-> name, cite |-> cite]

CatalogSnapshot ==
    <<Entry("deu", "eng", "n", "cite-n"), Entry("deu", "eng", "m", ""),
      Entry("eng", "deu", "n", "")>>

RECURSIVE FilterLangs(_, _)
FilterLangs(es, langs) ==
    IF es = <<>> THEN <<>>
    ELSE IF langs = NoLangs \/ Head(es).langs = langs
         THEN <<Head(es)>> \o FilterLangs(Tail(es), langs)
         ELSE FilterLangs(Tail(es), langs)

get_entries(langs) == FilterLangs(CatalogSnapshot, langs)

GetEntriesDefaultFuzzy == FALSE

Query(by, fuzzy) == [by |-> by, fuzzy |-> fuzzy]

\* populate-on-first-query: a lookup rebuilds a missing cached index file
IndexAfterLookup(cache, build) == IF cache = 0 THEN build + 1 ELSE cache

NoFile == [exists |-> FALSE, content |-> <<>>]
File(content) == [exists |-> TRUE, content |-> content]

Fs == [cache |-> cacheIndex, bak |-> bakFile, out |-> outDir, sig |-> sigFile]

(***************************************************************************)
(* mtdata.utils.IO.writer: open in append or truncate mode, then write.    *)
(***************************************************************************)
IOOpen(f, append) == IF append THEN File(f.content) ELSE File(<<>>)

WriteAt(content, pos, data) ==
    LET n == IF Len(content) > pos + Len(data) THEN Len(content)
             ELSE pos + Len(data)
    IN [i \in 1..n |->
          IF i > pos /\ i <= pos + Len(data) THEN data[i - pos]
          ELSE IF i <= Len(content) THEN content[i] ELSE "NUL"]

IOWrite(f, append, pos, data) ==
    IF append THEN File(f.content \o data) ELSE File(WriteAt(f.content, pos, data))

(***************************************************************************)
(* parse_args: argparse applies lang_pair and dataset_id to the raw words. *)
(***************************************************************************)
NoList == [given |-> FALSE, ids |-> <<>>]
Given(ids) == [given |-> TRUE, ids |-> ids]

NoArgs ==
    [task |-> "none", reindex |-> FALSE, full |-> FALSE, langs |-> NoLangs,
     train_dids |-> NoList, test_dids |-> NoList, out |-> "d1",
     rawTrain |-> NoList, rawTest |-> NoList]

Truthy(list) == list.given /\ list.ids # <<>>

RECURSIVE LogLines(_)
LogLines(trace) ==
    IF trace = <<>> THEN <<>>
    ELSE IF Head(trace).ev = "log.suggestion"
         THEN <<Head(trace)>> \o LogLines(Tail(trace))
         ELSE LogLines(Tail(trace))

RECURSIVE FirstRaise(_)
FirstRaise(outs) ==
    IF outs = <<>> THEN 0
    ELSE IF Head(outs).status = "raise" THEN 1
    ELSE LET k == FirstRaise(Tail(outs)) IN IF k = 0 THEN 0 ELSE k + 1

RECURSIVE TraceUpTo(_, _)
TraceUpTo(outs, k) ==
    IF outs = <<>> \/ k = 0 THEN <<>>
    ELSE Head(outs).trace \o TraceUpTo(Tail(outs), k - 1)

ParseArgsFrom(p, Cmds) ==
    /\ pc[p] = "idle"
    /\ runs < MaxRuns
    /\ \E c \in Cmds :
         LET lp == IF c.l = <<>>
                   THEN Outcome("return", "none", "none", NoLangs, NoDid, <<>>)
                   ELSE lang_pair(c.l)
             trs == [i \in 1..Len(c.tr.ids) |-> dataset_id(c.tr.ids[i])]
             tss == [i \in 1..Len(c.ts.ids) |-> dataset_id(c.ts.ids[i])]
             outs == <<lp>> \o trs \o tss
             k == FirstRaise(outs)
             seen == TraceUpTo(outs, IF k = 0 THEN Len(outs) ELSE k)
         IN /\ log' = [log EXCEPT ![p] = LogLines(seen)]
            /\ IF k # 0
               THEN /\ pc' = [pc EXCEPT ![p] = "failed"]
                    /\ err' = [err EXCEPT ![p] = outs[k].kind]
                    /\ args' = [args EXCEPT ![p] = [NoArgs EXCEPT !.task = "parse_args"]]
               ELSE /\ pc' = [pc EXCEPT ![p] = "parsed"]
                    /\ err' = [err EXCEPT ![p] = "none"]
                    /\ args' = [args EXCEPT ![p] =
                          [task |-> c.task, reindex |-> c.reindex, full |-> c.full,
                           langs |-> lp.langs,
                           train_dids |-> [given |-> c.tr.given,
                               ids |-> [i \in 1..Len(trs) |-> trs[i].did]],
                           test_dids |-> [given |-> c.ts.given,
                               ids |-> [i \in 1..Len(tss) |-> tss[i].did]],
                           out |-> c.o, rawTrain |-> c.tr, rawTest |-> c.ts]]
    /\ runs' = runs + 1
    /\ sig' = [sig EXCEPT ![p] = <<>>]
    /\ wpos' = [wpos EXCEPT ![p] = 0]
    /\ queries' = [queries EXCEPT ![p] = <<>>]
    /\ snap' = [snap EXCEPT ![p] = Fs]
    /\ UNCHANGED <<cacheIndex, bakFile, outDir, sigFile, hist>>
    /\ UNCHANGED <<parseVars, reportVars>>

(***************************************************************************)
(* main: index invalidation, then dispatch on the subcommand.              *)
(***************************************************************************)
InvalidateLine == Ev("log.info", <<"Invalidate index: ", "cached_index_file", " -> ", "bak_file">>)

\* faulty variant: the cached index is deleted, not renamed
MainReindexMut(p) ==
    /\ pc[p] = "parsed"
    /\ IF args[p].reindex /\ cacheIndex # 0
       THEN /\ cacheIndex' = 0
            /\ log' = [log EXCEPT ![p] = Append(@, InvalidateLine)]
            /\ UNCHANGED bakFile
       ELSE UNCHANGED <<bakFile, cacheIndex, log>>
    /\ pc' = [pc EXCEPT ![p] = "dispatch"]
    /\ UNCHANGED <<args, err, sig, wpos, queries, snap, outDir, sigFile, hist, runs>>
    /\ UNCHANGED <<parseVars, reportVars>>

MainReindex(p) ==
    /\ pc[p] = "parsed"
    /\ IF args[p].reindex /\ cacheIndex # 0
       THEN /\ bakFile' = cacheIndex
            /\ cacheIndex' = 0
            /\ log' = [log EXCEPT ![p] = Append(@, InvalidateLine)]
       ELSE UNCHANGED <<bakFile, cacheIndex, log>>
    /\ pc' = [pc EXCEPT ![p] = "dispatch"]
    /\ UNCHANGED <<args, err, sig, wpos, queries, snap, outDir, sigFile, hist, runs>>
    /\ UNCHANGED <<parseVars, reportVars>>

(***************************************************************************)
(* list_data.                                                              *)
(***************************************************************************)
Fmt(n) == <<"0", "1", "2", "3", "4", "5", "6", "7", "8", "9">>[n + 1]

RECURSIVE ListLines(_, _)
ListLines(es, full) ==
    IF es = <<>> THEN <<>>
    ELSE <<Ev("print", <<Head(es).name>>)>>
         \o (IF full
             THEN <<Ev("print", <<IF Head(es).cite # "" THEN Head(es).cite
                                   ELSE "CITATION_NOT_LISTED">>)>>
             ELSE <<>>)
         \o ListLines(Tail(es), full)

\* faulty variant: list queries without fuzzy matching
ListFuzzyMut == FALSE

ListFuzzy == TRUE

ListData(p) ==
    /\ pc[p] = "dispatch"
    /\ args[p].task = "list"
    /\ LET found == get_entries(args[p].langs) IN
         log' = [log EXCEPT ![p] =
                   @ \o <<Ev("log.info", <<"Found ", Fmt(Len(found))>>)>>
                     \o ListLines(found, args[p].full)
                     \o <<Ev("print", <<"Total ", Fmt(Len(found)), " entries">>)>>]
    /\ queries' = [queries EXCEPT ![p] = Append(@, Query("list_data", ListFuzzy))]
    /\ cacheIndex' = IndexAfterLookup(cacheIndex, runs)
    /\ pc' = [pc EXCEPT ![p] = "done"]
    /\ UNCHANGED <<args, err, sig, wpos, snap, bakFile, outDir, sigFile, hist, runs>>
    /\ UNCHANGED <<parseVars, reportVars>>

(***************************************************************************)
(* generate_report: two insertion-ordered defaultdict(int) tallies.        *)
(***************************************************************************)
\* faulty variant: a new key goes to the front of the table
BumpNewMut(stats, key) == <<[key |-> key, val |-> 1]>> \o stats

BumpNew(stats, key) == Append(stats, [key |-> key, val |-> 1])

Bump(stats, key) ==
    IF \E i \in 1..Len(stats) : stats[i].key = key
    THEN [i \in 1..Len(stats) |->
            IF stats[i].key = key THEN [stats[i] EXCEPT !.val = @ + 1]
            ELSE stats[i]]
    ELSE BumpNew(stats, key)

RECURSIVE Tally(_, _)
Tally(keys, stats) ==
    IF keys = <<>> THEN stats ELSE Tally(Tail(keys), Bump(stats, Head(keys)))

LangKey(ent) == Join(<<TagStr(ent.langs[1]), TagStr(ent.langs[2])>>, "_")

Report(es) ==
    [langs |-> Tally([i \in 1..Len(es) |-> LangKey(es[i])], <<>>),
     names |-> Tally([i \in 1..Len(es) |-> es[i].name], <<>>)]

ReportLines(t) ==
    <<Ev("print", <<"Languages:">>)>>
    \o [i \in 1..Len(t.langs) |->
          Ev("print", t.langs[i].key \o <<"TAB", Fmt(t.langs[i].val)>>)]
    \o <<Ev("print", <<"Names:">>)>>
    \o [i \in 1..Len(t.names) |->
          Ev("print", <<t.names[i].key, "TAB", Fmt(t.names[i].val)>>)]

GenerateReport(p) ==
    /\ pc[p] = "dispatch"
    /\ args[p].task = "report"
    /\ log' = [log EXCEPT ![p] = @ \o ReportLines(Report(get_entries(args[p].langs)))]
    /\ queries' = [queries EXCEPT ![p] =
                     Append(@, Query("generate_report", GetEntriesDefaultFuzzy))]
    /\ cacheIndex' = IndexAfterLookup(cacheIndex, runs)
    /\ pc' = [pc EXCEPT ![p] = "done"]
    /\ UNCHANGED <<args, err, sig, wpos, snap, bakFile, outDir, sigFile, hist, runs>>
    /\ UNCHANGED <<parseVars, reportVars>>

(***************************************************************************)
(* get_data.  args.merge and CACHE_DIR are handed to Dataset.prepare and    *)
(* play no part in what get_data itself does.                              *)
(***************************************************************************)
Version == "0.3.0"

UsageError == "AssertionError"

GetAssert(p) ==
    /\ pc[p] = "dispatch"
    /\ args[p].task = "get"
    /\ IF Truthy(args[p].train_dids) \/ Truthy(args[p].test_dids)
       THEN /\ pc' = [pc EXCEPT ![p] = "prepare"]
            /\ err' = err
       ELSE /\ pc' = [pc EXCEPT ![p] = "failed"]
            /\ err' = [err EXCEPT ![p] = UsageError]
    /\ UNCHANGED <<args, sig, wpos, log, queries, snap, cacheIndex, bakFile,
                   outDir, sigFile, hist, runs>>
    /\ UNCHANGED <<parseVars, reportVars>>

IdStrs(list) == [i \in 1..Len(list.ids) |-> DatasetIdStr(list.ids[i])]

CliSig(a) ==
    <<"-l ">> \o Join(<<TagStr(a.langs[1]), TagStr(a.langs[2])>>, Hyphen)
    \o (IF Truthy(a.train_dids)
        THEN <<" -tr ">> \o Join(IdStrs(a.train_dids), Space) ELSE <<>>)
    \o (IF Truthy(a.test_dids)
        THEN <<" -ts ">> \o Join(IdStrs(a.test_dids), Space) ELSE <<>>)

Sig(a) ==
    <<"mtdata get ">> \o CliSig(a) \o <<" -o <out-dir>", "NL">>
    \o <<"mtdata version ", Version, "NL">>

PrepareErrors == {"NotFoundError", "RetrievalError", "PrepareError"}

\* faulty variant: the signature is written although prepare raised
GetPrepareRaiseMut(p, strs, k, kind) ==
    /\ outDir' = [outDir EXCEPT ![args[p].out] = @ \cup {strs[i] : i \in 1..(k - 1)}]
    /\ pc' = [pc EXCEPT ![p] = "failed"]
    /\ err' = [err EXCEPT ![p] = kind]
    /\ sigFile' = [sigFile EXCEPT ![args[p].out] = File(@.content \o Sig(args[p]))]
    /\ UNCHANGED <<sig, log>>

\* Dataset.prepare raising kind at the k-th identifier: the files of the
\* identifiers before it stay on disk, and nothing else of get_data runs.
GetPrepareRaise(p, strs, k, kind) ==
    /\ outDir' = [outDir EXCEPT ![args[p].out] = @ \cup {strs[i] : i \in 1..(k - 1)}]
    /\ pc' = [pc EXCEPT ![p] = "failed"]
    /\ err' = [err EXCEPT ![p] = kind]
    /\ UNCHANGED <<sig, log, sigFile>>

GetPrepare(p) ==
    /\ pc[p] = "prepare"
    /\ LET strs == IdStrs(args[p].train_dids) \o IdStrs(args[p].test_dids)
           n == Len(strs)
           missing == {i \in 1..n : strs[i] \notin CatalogIds}
       IN \/ \E k \in 1..n, kind \in PrepareErrors :
               /\ \A i \in 1..(k - 1) : i \notin missing
               /\ kind = "NotFoundError" <=> k \in missing
               /\ GetPrepareRaise(p, strs, k, kind)
          \/ /\ missing = {}
             /\ outDir' = [outDir EXCEPT ![args[p].out] = @ \cup {strs[i] : i \in 1..n}]
             /\ sig' = [sig EXCEPT ![p] = Sig(args[p])]
             /\ log' = [log EXCEPT ![p] =
                          @ \o <<Ev("log.info", <<"Dataset is ready at ", args[p].out>>),
                                 Ev("log.info", <<"mtdata args for reproducing this dataset:">>
                                                \o Sig(args[p]))>>]
             /\ pc' = [pc EXCEPT ![p] = "open"]
             /\ UNCHANGED <<err, sigFile>>
    /\ queries' = [queries EXCEPT ![p] = Append(@, Query("Dataset.prepare", FALSE))]
    /\ cacheIndex' = IndexAfterLookup(cacheIndex, runs)
    /\ UNCHANGED <<args, wpos, snap, bakFile, hist, runs>>
    /\ UNCHANGED <<parseVars, reportVars>>

\* faulty variant: the signature file is opened for overwriting
SigAppendModeMut == FALSE

SigAppendMode == TRUE

GetOpen(p) ==
    /\ pc[p] = "open"
    /\ sigFile' = [sigFile EXCEPT ![args[p].out] = IOOpen(@, SigAppendMode)]
    /\ wpos' = [wpos EXCEPT ![p] = Len(sigFile'[args[p].out].content)]
    /\ pc' = [pc EXCEPT ![p] = "write"]
    /\ UNCHANGED <<args, err, sig, log, queries, snap, cacheIndex, bakFile,
                   outDir, hist, runs>>
    /\ UNCHANGED <<parseVars, reportVars>>

GetWrite(p) ==
    /\ pc[p] = "write"
    /\ sigFile' = [sigFile EXCEPT ![args[p].out] =
                     IOWrite(@, SigAppendMode, wpos[p], sig[p])]
    /\ hist' = [hist EXCEPT ![args[p].out] = Append(@, Sig(args[p]))]
    /\ pc' = [pc EXCEPT ![p] = "done"]
    /\ UNCHANGED <<args, err, sig, wpos, log, queries, snap, cacheIndex,
                   bakFile, outDir, runs>>
    /\ UNCHANGED <<parseVars, reportVars>>

(***************************************************************************)
(* Sequential use: one shell runs main again and again.                    *)
(***************************************************************************)
Cmd(task, ri, full, l, tr, ts, o) ==
    [task |-> task, reindex |-> ri, full |-> full, l |-> l, tr |-> tr, ts |-> ts, o |-> o]

Trains ==
    {NoList, Given(<<>>), Given(<<RawA>>), Given(<<RawB>>), Given(<<RawB, RawA>>),
     Given(<<RawA, RawMissing>>), Given(<<RawMalformed>>)}
Tests == {NoList, Given(<<>>), Given(<<RawA>>)}

ListCmds ==
    {Cmd("list", ri, full, l, NoList, NoList, "d1") :
        ri \in BOOLEAN, full \in BOOLEAN, l \in RawLangs \cup {<<>>, <<"deu">>}}
ReportCmds ==
    {Cmd("report", ri, FALSE, l, NoList, NoList, "d1") :
        ri \in BOOLEAN, l \in RawLangs \cup {<<>>}}
GetCmds(Outs) ==
    {Cmd("get", ri, FALSE, <<"de", "-", "en">>, tr, ts, o) :
        ri \in BOOLEAN, tr \in Trains, ts \in Tests, o \in Outs}

ParseArgs(p) == ParseArgsFrom(p, ListCmds \cup ReportCmds \cup GetCmds({"d1"}))

\* the process ends; the shell may start the next one
Exit(p) ==
    /\ pc[p] \in {"done", "failed"}
    /\ runs < MaxRuns
    /\ pc' = [pc EXCEPT ![p] = "idle"]
    /\ args' = [args EXCEPT ![p] = NoArgs]
    /\ err' = [err EXCEPT ![p] = "none"]
    /\ sig' = [sig EXCEPT ![p] = <<>>]
    /\ wpos' = [wpos EXCEPT ![p] = 0]
    /\ log' = [log EXCEPT ![p] = <<>>]
    /\ queries' = [queries EXCEPT ![p] = <<>>]
    /\ snap' = [snap EXCEPT ![p] = Fs]
    /\ UNCHANGED <<cacheIndex, bakFile, outDir, sigFile, hist, runs>>
    /\ UNCHANGED <<parseVars, reportVars>>

InitHarness ==
    /\ pin = <<>>
    /\ pfun = "none"
    /\ pres = Outcome("pending", "none", "none", NoLangs, NoDid, <<>>)
    /\ entries = <<>>
    /\ tables = Report(<<>>)
    /\ prevTables = Report(<<>>)
    /\ rruns = 0

PriorSig ==
    <<"mtdata get ", "-l ", "deu", "-", "eng", " -tr ">> \o IdA
    \o <<" -o <out-dir>", "NL", "mtdata version ", Version, "NL">>

InitMain(active) ==
    /\ pc = [p \in Procs |-> IF p \in active THEN "idle" ELSE "off"]
    /\ args = [p \in Procs |-> NoArgs]
    /\ err = [p \in Procs |-> "none"]
    /\ sig = [p \in Procs |-> <<>>]
    /\ wpos = [p \in Procs |-> 0]
    /\ log = [p \in Procs |-> <<>>]
    /\ queries = [p \in Procs |-> <<>>]
    /\ cacheIndex \in {0, 1}
    /\ bakFile = 0
    /\ outDir = [d \in Dirs |-> IF d = "d2" THEN {IdA} ELSE {}]
    /\ sigFile = [d \in Dirs |-> IF d = "d2" THEN File(PriorSig) ELSE NoFile]
    /\ hist = [d \in Dirs |-> IF d = "d2" THEN <<PriorSig>> ELSE <<>>]
    /\ runs = 0
    /\ snap = [p \in Procs |-> Fs]

Init == InitMain({1}) /\ InitHarness

Next ==
    \/ ParseArgs(1)
    \/ MainReindex(1)
    \/ ListData(1)
    \/ GenerateReport(1)
    \/ GetAssert(1)
    \/ GetPrepare(1)
    \/ GetOpen(1)
    \/ GetWrite(1)
    \/ Exit(1)

Spec == Init /\ [][Next]_vars

(***************************************************************************)
(* Concurrent use: two shells each run one get.                            *)
(***************************************************************************)
ConcCmds ==
    {Cmd("get", FALSE, FALSE, <<"de", "-", "en">>, tr, NoList, o) :
        tr \in {Given(<<RawA>>), Given(<<RawB>>), Given(<<RawA, RawMissing>>)},
        o \in Dirs}

ParseArgsConc(p) == ParseArgsFrom(p, ConcCmds)

InitConc == InitMain(Procs) /\ InitHarness

NextConc ==
    \E p \in Procs :
        \/ ParseArgsConc(p)
        \/ MainReindex(p)
        \/ GetAssert(p)
        \/ GetPrepare(p)
        \/ GetOpen(p)
        \/ GetWrite(p)

SpecConc == InitConc /\ [][NextConc]_vars

(***************************************************************************)
(* The argparse type functions applied to one argument string.             *)
(***************************************************************************)
FieldSet == {<<>>, <<"g">>, <<"de">>, <<"eng">>}
Pads == {<<>>, <<Space>>}

ParseInputs ==
    {lead \o Join(f, Hyphen) \o trail :
        f \in UNION {[1..n -> FieldSet] : n \in 1..MaxFields},
        lead \in Pads, trail \in Pads}

ApplyLangPair ==
    /\ pfun = "none"
    /\ pfun' = "lang_pair"
    /\ pres' = lang_pair(pin)
    /\ UNCHANGED <<pin, mainVars, reportVars>>

ApplyDatasetId ==
    /\ pfun = "none"
    /\ pfun' = "dataset_id"
    /\ pres' = dataset_id(pin)
    /\ UNCHANGED <<pin, mainVars, reportVars>>

InitParse ==
    /\ InitMain({})
    /\ pin \in ParseInputs
    /\ pfun = "none"
    /\ pres = Outcome("pending", "none", "none", NoLangs, NoDid, <<>>)
    /\ entries = <<>>
    /\ tables = Report(<<>>)
    /\ prevTables = Report(<<>>)
    /\ rruns = 0

NextParse == ApplyLangPair \/ ApplyDatasetId

SpecParse == InitParse /\ [][NextParse]_vars

(***************************************************************************)
(* generate_report run again and again on one catalog snapshot.            *)
(***************************************************************************)
EntryPool ==
    {Entry("deu", "eng", "n", ""), Entry("deu", "eng", "m", ""),
     Entry("eng", "deu", "n", ""), Entry("fra", "eng", "w", "")}

ReportRun ==
    /\ rruns < MaxRuns
    /\ tables' = Report(entries)
    /\ prevTables' = tables
    /\ rruns' = rruns + 1
    /\ UNCHANGED <<entries, mainVars, parseVars>>

InitReport ==
    /\ InitMain({})
    /\ pin = <<>>
    /\ pfun = "none"
    /\ pres = Outcome("pending", "none", "none", NoLangs, NoDid, <<>>)
    /\ entries \in SeqsUpTo(EntryPool, MaxEntries)
    /\ tables = Report(<<>>)
    /\ prevTables = Report(<<>>)
    /\ rruns = 0

NextReport == ReportRun

SpecReport == InitReport /\ [][NextReport]_vars

(***************************************************************************)
(* Properties.                                                             *)
(***************************************************************************)
RECURSIVE Flatten(_)
Flatten(records) ==
    IF records = <<>> THEN <<>> ELSE Head(records) \o Flatten(Tail(records))

Count(s, sym) == Cardinality({i \in 1..Len(s) : s[i] = sym})

Fields(s) == Count(s, Hyphen) + 1

Has(trace, kind) == \E i \in 1..Len(trace) : trace[i].ev = kind

IsGet(p) == args[p].task = "get"

NothingToGet(p) == ~Truthy(args[p].train_dids) /\ ~Truthy(args[p].test_dids)

Renamed(p) == args[p].reindex /\ snap[p].cache # 0

\* C1: a get with neither train nor test identifiers fails with UsageError,
\* and when it fails nothing on the filesystem has changed since main
\* started (cache index, output directory, signature file) and
\* Dataset.prepare has not been called.
C1_UsageErrorBeforeAnyMutation ==
    \A p \in Procs :
        (pc[p] = "failed" /\ IsGet(p) /\ NothingToGet(p))
        => /\ err[p] = UsageError
           /\ Fs = snap[p]
           /\ queries[p] = <<>>

\* C2: the signature file is written only after Dataset.prepare returned:
\* when prepare raises, that error is what leaves main, NotFoundError
\* exactly for an identifier the catalog lacks, and the signature file is
\* as it was when the invocation started; whenever the file differs from
\* its starting state, prepare has returned.
C2_SignatureOnlyAfterPrepare ==
    \A p \in Procs :
        /\ (pc[p] = "failed" /\ IsGet(p) /\ ~NothingToGet(p))
           => /\ err[p] \in PrepareErrors
              /\ sigFile = snap[p].sig
              /\ sig[p] = <<>>
              /\ err[p] = "NotFoundError"
                 => \E s \in Range(IdStrs(args[p].train_dids) \o IdStrs(args[p].test_dids)) :
                       s \notin CatalogIds
        /\ (pc[p] # "off" /\ sigFile # snap[p].sig)
           => /\ pc[p] \in {"write", "done"}
              /\ err[p] = "none"
              /\ queries[p] = <<Query("Dataset.prepare", FALSE)>>

C2_Witness ==
    /\ pc[1] = "failed"
    /\ err[1] = "RetrievalError"
    /\ Len(hist["d1"]) = 1
    /\ outDir["d1"] # snap[1].out["d1"]

\* C3: the signature file only grows by whole records: it always holds the
\* records of the completed get invocations into its directory, one each,
\* in invocation order, and a completed get leaves the content it found
\* followed by its own record.
C3_SignatureAppendOnly ==
    /\ \A d \in Dirs :
          /\ sigFile[d].content = Flatten(hist[d])
          /\ Count(sigFile[d].content, "mtdata get ") = Len(hist[d])
          /\ Count(sigFile[d].content, "mtdata version ") = Len(hist[d])
    /\ \A p \in Procs :
          (pc[p] = "done" /\ IsGet(p))
          => /\ sigFile[args[p].out] = File(snap[p].sig[args[p].out].content \o sig[p])
             /\ \A d \in Dirs \ {args[p].out} : sigFile[d] = snap[p].sig[d]

C3_Witness ==
    /\ pc[1] = "done"
    /\ IsGet(1)
    /\ Len(hist["d1"]) = 2
    /\ hist["d1"][1] # hist["d1"][2]

LiteralSig(a) ==
    <<"mtdata get ", "-l ">> \o Join(<<TagStr(a.langs[1]), TagStr(a.langs[2])>>, Hyphen)
    \o (IF a.rawTrain.ids # <<>> THEN <<" -tr ">> \o Join(a.rawTrain.ids, Space) ELSE <<>>)
    \o (IF a.rawTest.ids # <<>> THEN <<" -ts ">> \o Join(a.rawTest.ids, Space) ELSE <<>>)
    \o <<" -o <out-dir>", "NL", "mtdata version ", Version, "NL">>

\* C4: the record of a successful get lists after -tr and -ts the
\* identifier strings exactly as the user typed them, in input order, each
\* section present iff its list is non-empty, and ends with the version line.
C4_SignatureListsLiteralIds ==
    \A p \in Procs :
        (pc[p] = "done" /\ IsGet(p)) => sig[p] = LiteralSig(args[p])

Perms(S) ==
    {f \in [1..Cardinality(S) -> S] :
        \A i, j \in 1..Cardinality(S) : i # j => f[i] # f[j]}

Written(d) == {p \in Procs : pc[p] = "done" /\ args[p].out = d}

InitContent(d) == IF d = "d2" THEN PriorSig ELSE <<>>

\* C6: with two get invocations running at once, whatever the interleaving,
\* each signature file holds what it held at the start followed by the
\* complete records of exactly the invocations that have written into its
\* directory, in some order, each record ending in a newline; invocations
\* into another directory leave no trace in it.
C6_ConcurrentRecordsIntact ==
    /\ \A d \in Dirs :
          \E order \in Perms(Written(d)) :
             sigFile[d].content =
                InitContent(d) \o Flatten([i \in 1..Len(order) |-> sig[order[i]]])
    /\ \A p \in Procs :
          pc[p] = "done" => (sig[p] # <<>> /\ sig[p][Len(sig[p])] = "NL")

C6_Witness ==
    /\ pc[1] = "done" /\ pc[2] = "done"
    /\ args[1].out = "d2" /\ args[2].out = "d2"
    /\ sig[1] # sig[2]
    /\ sigFile["d2"].content = PriorSig \o sig[2] \o sig[1]
    /\ sigFile["d1"] = NoFile

\* C7: dataset_id on a string without exactly 5 hyphen separated fields
\* raises FormatError before the resolver or the DatasetId constructor is
\* called; on a 5-field string a failure of the constructor is raised as
\* FormatError carrying the cause.
C7_MalformedIdIsFormatError ==
    pfun = "dataset_id"
    => /\ Fields(pin) # 5
          => /\ pres.status = "raise"
             /\ pres.kind = FormatError
             /\ pres.trace = <<>>
       /\ (Fields(pin) = 5 /\ pres.status = "raise" /\ Has(pres.trace, "DatasetId"))
          => /\ pres.kind = FormatError
             /\ pres.cause # "none"
       /\ (Fields(pin) = 5 /\ pres.status = "return")
          => /\ Has(pres.trace, "DatasetId")
             /\ pres.cause = "none"

C7_Witness ==
    /\ pfun = "dataset_id"
    /\ Fields(pin) = 6
    /\ pin[1] = Space
    /\ pres.kind = FormatError
    /\ pres.trace = <<>>

\* C8: lang_pair on a string of exactly two parts, both resolvable, returns
\* the two canonical tags in order and logs a suggestion naming the
\* canonical form iff that form differs from the input; on any other
\* number of parts it raises FormatError without calling the resolver.
C8_LangPairCanonicalAndSuggestion ==
    pfun = "lang_pair"
    => IF Fields(pin) # 2
       THEN /\ pres.status = "raise"
            /\ pres.kind = FormatError
            /\ pres.trace = <<>>
       ELSE LET i == CHOOSE k \in 1..Len(pin) : pin[k] = Hyphen
                r1 == bcp47(SubSeq(pin, 1, i - 1))
                r2 == bcp47(SubSeq(pin, i + 1, Len(pin)))
                canonical == <<r1.tag, Hyphen, r2.tag>>
                said == {k \in 1..Len(pres.trace) : pres.trace[k].ev = "log.suggestion"}
            IN (r1.ok /\ r2.ok)
               => /\ pres.status = "return"
                  /\ pres.langs = <<r1.tag, r2.tag>>
                  /\ Cardinality(said) = (IF canonical # pin THEN 1 ELSE 0)
                  /\ \A k \in said : pres.trace[k].arg = canonical

C8_Witness ==
    /\ pfun = "lang_pair"
    /\ pin = <<"de", "-", "eng">>
    /\ pres.status = "return"
    /\ pres.langs = <<"deu", "eng">>
    /\ Has(pres.trace, "log.suggestion")

RECURSIVE SumVals(_)
SumVals(rows) == IF rows = <<>> THEN 0 ELSE Head(rows).val + SumVals(Tail(rows))

FirstSeen(keys, key) == CHOOSE i \in 1..Len(keys) :
    keys[i] = key /\ \A j \in 1..(i - 1) : keys[j] # key

RowsAccurate(rows, keys) ==
    /\ \A i, j \in 1..Len(rows) : i # j => rows[i].key # rows[j].key
    /\ {rows[i].key : i \in 1..Len(rows)} = Range(keys)
    /\ \A i \in 1..Len(rows) :
          rows[i].val = Cardinality({j \in 1..Len(keys) : keys[j] = rows[i].key})
    /\ SumVals(rows) = Len(keys)
    /\ \A i, j \in 1..Len(rows) :
          i < j => FirstSeen(keys, rows[i].key) < FirstSeen(keys, rows[j].key)

\* C9: the tables of generate_report have one row per distinct joined
\* language pair, respectively per distinct name, each count is the number
\* of entries with that key, the counts of a table sum to the number of
\* entries, rows are in first-seen order, and a second run on the same
\* catalog snapshot gives the same tables.
C9_ReportCountsAndOrder ==
    rruns >= 1
    => /\ RowsAccurate(tables.langs, [i \in 1..Len(entries) |-> LangKey(entries[i])])
       /\ RowsAccurate(tables.names, [i \in 1..Len(entries) |-> entries[i].name])
       /\ rruns >= 2 => tables = prevTables

C9_Witness ==
    /\ rruns = 2
    /\ Len(entries) = 4
    /\ Len(tables.langs) = 2
    /\ Len(tables.names) = 3
    /\ tables.langs[1].val = 3
    /\ LangKey(entries[1]) = LangKey(entries[4])
    /\ LangKey(entries[1]) # LangKey(entries[2])

\* C10: list and report are read-only: each makes exactly one catalog
\* query, list with fuzzy matching and report without, and leaves output
\* directories and signature files as they were; only a get invocation
\* ever changes a signature file.
C10_ListAndReportReadOnly ==
    \A p \in Procs :
        /\ (pc[p] = "done" /\ args[p].task = "list")
           => /\ queries[p] = <<Query("list_data", TRUE)>>
              /\ outDir = snap[p].out /\ sigFile = snap[p].sig
        /\ (pc[p] = "done" /\ args[p].task = "report")
           => /\ queries[p] = <<Query("generate_report", FALSE)>>
              /\ outDir = snap[p].out /\ sigFile = snap[p].sig
        /\ (pc[p] # "off" /\ sigFile # snap[p].sig) => IsGet(p)

C10_Witness ==
    /\ pc[1] = "done"
    /\ args[1].task = "list"
    /\ args[1].full
    /\ sigFile["d1"].exists
    /\ outDir["d1"] # {}

====
